---- MODULE Spec2Model ----
(***************************************************************************)
(* MEMD, a single-header leak detector for C (memd.h, kept in the          *)
(* repository as the tail of src/build.bat, lines 40-356).                 *)
(*                                                                         *)
(* The model holds the global MEMD_Data structure, the thread-local        *)
(* _memd_ignore flag and the state of the C library's heap that the        *)
(* wrappers forward to.  Every wrapper is an operator computed as the C    *)
(* function computes it; every call site (the macros malloc, free, calloc, *)
(* realloc and the memd_* API) is an action.                               *)
(***************************************************************************)
EXTENDS Integers, Sequences, FiniteSets, TLC

VARIABLES
    MEMD_Data,      \* the global tracking structure
    _memd_ignore,   \* the thread-local flag: 1 while tracking is paused
    heap,           \* the C library's heap: what each address holds
    reports,        \* addresses of the report buffers the caller still holds
    last,           \* the call made by the latest step, with what it returned
    nops,           \* number of calls made so far
    calls           \* per thread of a concurrent program: the call it is in

vars == <<MEMD_Data, _memd_ignore, heap, reports, last, nops, calls>>

(***************************************************************************)
(* Bounds of the model.  The two capacities are the header's constants     *)
(* (1000 each) scaled down; SizeMod stands for SIZE_MAX + 1.  MaxOps is    *)
(* the number of calls of a single-threaded program, MaxCalls that of the  *)
(* two threads of a concurrent program together.                           *)
(***************************************************************************)
MEMD_MAX_ALLOCATIONS == 2
MEMD_MAX_WARNINGS == 2
MaxAddr == 3
MaxSize == 2
MaxOps == 5
MaxCalls == 4
SizeMod == 4

NULL == 0
NoBlock == -1
Unused == -2
Addr == 1..MaxAddr
Sizes == 0..MaxSize

\* __LINE__ and __FILE__ at the call sites: the program calls each of malloc,
\* calloc, free and realloc from one line of main.c.
LINE(op) ==
    CASE op = "malloc" -> 1
      [] op = "calloc" -> 2
      [] op = "free" -> 3
      [] op = "realloc" -> 4
FILE == "main.c"

\* MEMD_Mem as the zero-initialised global holds it.
MEMD_Mem == [address |-> 0, size |-> 0, line |-> 0, file |-> ""]

\* MEMD_Warning as the zero-initialised global holds it.
MEMD_Warning == [message |-> "", line |-> 0, file |-> ""]

(***************************************************************************)
(* The C library's heap: per address the size of the live block there,     *)
(* NoBlock where a block was and is gone, Unused where none ever was.      *)
(* The blocks that are live at one time fit in the address space, so their *)
(* sizes sum to less than SizeMod.  malloc returns NULL, or a block at any *)
(* address that holds no live block; the tracker only compares addresses,  *)
(* so the addresses never used are interchangeable and the heap takes the  *)
(* lowest of them when it takes a new one.  free ends the block.  realloc  *)
(* of a live block returns NULL and leaves the block alone, or ends the    *)
(* old block and returns the new one, in place or moved.  calloc fails     *)
(* when num * size does not fit.                                           *)
(***************************************************************************)
Live(h, a) == h[a] >= 0

RECURSIVE HeapUsed(_, _)
HeapUsed(h, a) ==
    IF a > MaxAddr THEN 0
    ELSE (IF Live(h, a) THEN h[a] ELSE 0) + HeapUsed(h, a + 1)

Fits(h, size) == HeapUsed(h, 1) + size < SizeMod

FirstUnused(h, a) == h[a] = Unused /\ \A b \in 1..(a - 1) : h[b] # Unused

Available(h, a) == h[a] = NoBlock \/ FirstUnused(h, a)

real_malloc(h, size) ==
    {NULL} \cup {a \in Addr : Available(h, a) /\ Fits(h, size)}

real_calloc(h, num, size) == real_malloc(h, num * size)

real_free(h, ptr) == IF ptr = NULL THEN h ELSE [h EXCEPT ![ptr] = NoBlock]

real_realloc(h, ptr, size) ==
    LET released == real_free(h, ptr)
    IN  {NULL} \cup {a \in Addr : Available(released, a) /\ Fits(released, size)}

allocated(h, ptr, size) == IF ptr = NULL THEN h ELSE [h EXCEPT ![ptr] = size]

reallocated(h, ptr, newPtr, size) ==
    IF newPtr = NULL THEN h ELSE allocated(real_free(h, ptr), newPtr, size)

\* The pointers a caller passes to free: NULL, any address the heap has used,
\* and one it never used (a pointer that is no block's).
Pointers(h) == {NULL} \cup {a \in Addr : h[a] # Unused \/ FirstUnused(h, a)}

\* The pointers a caller passes to realloc with a nonzero size: NULL or a
\* live block, as the C library's realloc requires of its caller.
Handles(h) == {NULL} \cup {a \in Addr : Live(h, a)}

\* WARN with the capacity test off by one.
WARN_off_by_one(d, msg, line, file) ==
    IF d.warning_count <= MEMD_MAX_WARNINGS
    THEN [d EXCEPT !.warnings[d.warning_count + 1] =
                       [message |-> msg, line |-> line, file |-> file],
                   !.warning_count = @ + 1]
    ELSE d

(***************************************************************************)
(* WARN: stores the warning in slot warning_count and increments it, when  *)
(* warning_count < MEMD_MAX_WARNINGS; otherwise nothing.  (C indexes from  *)
(* 0, the model from 1.)                                                   *)
(***************************************************************************)
WARN(d, msg, line, file) ==
    IF d.warning_count < MEMD_MAX_WARNINGS
    THEN [d EXCEPT !.warnings[d.warning_count + 1] =
                       [message |-> msg, line |-> line, file |-> file],
                   !.warning_count = @ + 1]
    ELSE d

\* _find_by_address whose loop stops after the first slot.
_find_by_address_first(d, address) ==
    IF d.mem[1].address = address THEN 1 ELSE NULL

\* Index of the first slot whose address field equals address; NULL if none.
_find_by_address(d, address) ==
    IF \E i \in 1..MEMD_MAX_ALLOCATIONS : d.mem[i].address = address
    THEN CHOOSE i \in 1..MEMD_MAX_ALLOCATIONS :
             /\ d.mem[i].address = address
             /\ \A j \in 1..(i - 1) : d.mem[j].address # address
    ELSE NULL

\* _insert that takes the first slot when no slot is empty.
_insert_overwrites(d, address, size, line, file) ==
    IF address = 0
    THEN WARN(d, "Memory allocation failed", line, file)
    ELSE LET found == _find_by_address(d, 0)
             mem == IF found = NULL THEN 1 ELSE found
         IN  [d EXCEPT !.mem[mem] = [address |-> address, size |-> size,
                                      line |-> line, file |-> file],
                        !.total_allocated_size = (@ + size) % SizeMod]

_insert(d, address, size, line, file) ==
    IF address = 0
    THEN WARN(d, "Memory allocation failed", line, file)
    ELSE LET mem == _find_by_address(d, 0)
         IN  IF mem = NULL
             THEN WARN(d, "Max allocations reached", line, file)
             ELSE [d EXCEPT !.mem[mem] = [address |-> address, size |-> size,
                                          line |-> line, file |-> file],
                            !.total_allocated_size = (@ + size) % SizeMod]

\* _erase that zeroes the slot's address and leaves total_free_size alone.
_erase_keeps_total(d, address, line, file) ==
    IF address = 0
    THEN [data |-> WARN(d, "Tried to free a null ptr", line, file), ret |-> -1]
    ELSE LET mem == _find_by_address(d, address)
         IN  IF mem = NULL
             THEN [data |-> WARN(d, "Double free detected", line, file), ret |-> -1]
             ELSE [data |-> [d EXCEPT !.mem[mem].address = 0], ret |-> 0]

\* _erase that warns of a missing record and goes on to report success.
_erase_no_return(d, address, line, file) ==
    IF address = 0
    THEN [data |-> WARN(d, "Tried to free a null ptr", line, file), ret |-> -1]
    ELSE LET mem == _find_by_address(d, address)
         IN  IF mem = NULL
             THEN [data |-> WARN(d, "Double free detected", line, file), ret |-> 0]
             ELSE [data |-> [d EXCEPT !.mem[mem].address = 0,
                                      !.total_free_size =
                                          (@ + d.mem[mem].size) % SizeMod],
                   ret |-> 0]

\* _erase without the test for a null address.
_erase_no_null_check(d, address, line, file) ==
    LET mem == _find_by_address(d, address)
    IN  IF mem = NULL
        THEN [data |-> WARN(d, "Double free detected", line, file), ret |-> -1]
        ELSE [data |-> [d EXCEPT !.mem[mem].address = 0,
                                 !.total_free_size =
                                     (@ + d.mem[mem].size) % SizeMod],
              ret |-> 0]

\* Returns the new MEMD_Data and the int result: 0 on success, -1 on failure.
_erase(d, address, line, file) ==
    IF address = 0
    THEN [data |-> WARN(d, "Tried to free a null ptr", line, file), ret |-> -1]
    ELSE LET mem == _find_by_address(d, address)
         IN  IF mem = NULL
             THEN [data |-> WARN(d, "Double free detected", line, file), ret |-> -1]
             ELSE [data |-> [d EXCEPT !.mem[mem].address = 0,
                                      !.total_free_size =
                                          (@ + d.mem[mem].size) % SizeMod],
                   ret |-> 0]

(***************************************************************************)
(* The wrappers.  Each takes the tracker's data d, the heap h and the flag *)
(* ign, the call's arguments, and (where the wrapper calls the C library's *)
(* allocator) the pointer ptr / newPtr that call returned.  Each yields    *)
(* the new data and heap, the value returned to the caller and the         *)
(* address handed to the C library's free (NULL when free is not called).  *)
(***************************************************************************)
_memd_malloc(d, h, ign, size, line, file, ptr) ==
    [data  |-> IF ign # 1 THEN _insert(d, ptr, size, line, file) ELSE d,
     heap  |-> allocated(h, ptr, size),
     ret   |-> ptr,
     freed |-> NULL]

_memd_calloc(d, h, ign, num, size, line, file, ptr) ==
    LET totalSize == (num * size) % SizeMod
    IN  [data  |-> IF ign # 1 /\ ptr # NULL
                   THEN _insert(d, ptr, totalSize, line, file)
                   ELSE d,
         heap  |-> allocated(h, ptr, num * size),
         ret   |-> ptr,
         freed |-> NULL]

\* _memd_free that forwards to free whatever _erase returned.
_memd_free_always(d, h, ign, ptr, line, file) ==
    IF ign # 1
    THEN [data |-> _erase(d, ptr, line, file).data, heap |-> real_free(h, ptr),
          ret |-> NULL, freed |-> ptr]
    ELSE [data |-> d, heap |-> h, ret |-> NULL, freed |-> NULL]

_memd_free(d, h, ign, ptr, line, file) ==
    IF ign # 1
    THEN LET e == _erase(d, ptr, line, file)
         IN  IF e.ret = 0
             THEN [data |-> e.data, heap |-> real_free(h, ptr),
                   ret |-> NULL, freed |-> ptr]
             ELSE [data |-> e.data, heap |-> h, ret |-> NULL, freed |-> NULL]
    ELSE [data |-> d, heap |-> h, ret |-> NULL, freed |-> NULL]

\* _memd_realloc that erases the old record before it looks at newPtr.
_memd_realloc_erases_first(d, h, ign, ptr, size, line, file, newPtr) ==
    IF ptr = NULL
    THEN _memd_malloc(d, h, ign, size, line, file, newPtr)
    ELSE IF size = 0
    THEN [_memd_free(d, h, ign, ptr, line, file) EXCEPT !.ret = NULL]
    ELSE [data  |-> IF ign # 1
                    THEN LET erased == _erase(d, ptr, line, file).data
                         IN  IF newPtr # NULL
                             THEN _insert(erased, newPtr, size, line, file)
                             ELSE erased
                    ELSE d,
          heap  |-> reallocated(h, ptr, newPtr, size),
          ret   |-> newPtr,
          freed |-> NULL]

\* _memd_realloc that tests size == 0 before ptr == NULL.
_memd_realloc_size_first(d, h, ign, ptr, size, line, file, newPtr) ==
    IF size = 0
    THEN [_memd_free(d, h, ign, ptr, line, file) EXCEPT !.ret = NULL]
    ELSE IF ptr = NULL
    THEN _memd_malloc(d, h, ign, size, line, file, newPtr)
    ELSE [data  |-> IF newPtr # NULL /\ ign # 1
                    THEN _insert(_erase(d, ptr, line, file).data,
                                 newPtr, size, line, file)
                    ELSE d,
          heap  |-> reallocated(h, ptr, newPtr, size),
          ret   |-> newPtr,
          freed |-> NULL]

_memd_realloc(d, h, ign, ptr, size, line, file, newPtr) ==
    IF ptr = NULL
    THEN _memd_malloc(d, h, ign, size, line, file, newPtr)
    ELSE IF size = 0
    THEN [_memd_free(d, h, ign, ptr, line, file) EXCEPT !.ret = NULL]
    ELSE [data  |-> IF newPtr # NULL /\ ign # 1
                    THEN _insert(_erase(d, ptr, line, file).data,
                                 newPtr, size, line, file)
                    ELSE d,
          heap  |-> reallocated(h, ptr, newPtr, size),
          ret   |-> newPtr,
          freed |-> NULL]

(***************************************************************************)
(* memd_report: the text built by the APPEND_TO_REPORT calls, one element  *)
(* per call.  %lu prints a size_t, so the leaked total is the difference   *)
(* in size_t arithmetic.                                                   *)
(***************************************************************************)
Fragment(kind, file, line, n, msg) ==
    [kind |-> kind, file |-> file, line |-> line, n |-> n, msg |-> msg]

RECURSIVE LeakLines(_, _)
LeakLines(d, i) ==
    IF i > MEMD_MAX_ALLOCATIONS THEN <<>>
    ELSE (IF d.mem[i].address # 0
          THEN <<Fragment("leak", d.mem[i].file, d.mem[i].line, d.mem[i].size, "")>>
          ELSE <<>>) \o LeakLines(d, i + 1)

RECURSIVE WarningLines(_, _)
WarningLines(d, i) ==
    IF i > d.warning_count THEN <<>>
    ELSE <<Fragment("warning", d.warnings[i].file, d.warnings[i].line, 0,
                    d.warnings[i].message)>> \o WarningLines(d, i + 1)

\* memd_report that lists the records whatever the totals are.
report_text_always_detailed(d) ==
    <<Fragment("rule", "", 0, 0, ""), Fragment("title", "", 0, 0, ""),
      Fragment("rule", "", 0, 0, ""),
      Fragment("allocated", "", 0, d.total_allocated_size, ""),
      Fragment("freed", "", 0, d.total_free_size, ""),
      Fragment("leaked", "", 0,
               (d.total_allocated_size - d.total_free_size) % SizeMod, "")>>
    \o <<Fragment("detailed", "", 0, 0, "")>> \o LeakLines(d, 1)
    \o (IF d.warning_count > 0
        THEN <<Fragment("warnings", "", 0, 0, "")>> \o WarningLines(d, 1)
        ELSE <<>>)
    \o <<Fragment("rule", "", 0, 0, "")>>

report_text(d) ==
    <<Fragment("rule", "", 0, 0, ""), Fragment("title", "", 0, 0, ""),
      Fragment("rule", "", 0, 0, ""),
      Fragment("allocated", "", 0, d.total_allocated_size, ""),
      Fragment("freed", "", 0, d.total_free_size, ""),
      Fragment("leaked", "", 0,
               (d.total_allocated_size - d.total_free_size) % SizeMod, "")>>
    \o (IF d.total_free_size # d.total_allocated_size
        THEN <<Fragment("detailed", "", 0, 0, "")>> \o LeakLines(d, 1)
        ELSE <<>>)
    \o (IF d.warning_count > 0
        THEN <<Fragment("warnings", "", 0, 0, "")>> \o WarningLines(d, 1)
        ELSE <<>>)
    \o <<Fragment("rule", "", 0, 0, "")>>

\* The report buffer's size (10 KB and growing in the header, scaled down).
buffer_size == 1

(***************************************************************************)
(* The threads of a concurrent program, and what a thread that is in no    *)
(* call holds: pc is where the thread is in the wrapper it called, op, ptr *)
(* and size are the call and its arguments, ret the pointer the C library  *)
(* returned, mem the slot _find_by_address returned, sum the value the     *)
(* thread has computed for a total and not stored yet, owned the blocks    *)
(* the thread was given and has not passed to free.                        *)
(***************************************************************************)
Thread == {1, 2}

Idle == [pc |-> "idle", op |-> "none", ptr |-> NULL, size |-> 0, ret |-> NULL,
         mem |-> NULL, sum |-> 0, owned |-> {}]

(***************************************************************************)
(* The state after static initialisation.                                  *)
(***************************************************************************)
NoCall == [op |-> "none", ptr |-> NULL, size |-> 0, line |-> 0,
           ret |-> NULL, freed |-> NULL, text |-> <<>>, again |-> FALSE]

Init ==
    /\ MEMD_Data = [mem |-> [i \in 1..MEMD_MAX_ALLOCATIONS |-> MEMD_Mem],
                    total_allocated_size |-> 0,
                    total_free_size |-> 0,
                    warnings |-> [i \in 1..MEMD_MAX_WARNINGS |-> MEMD_Warning],
                    warning_count |-> 0]
    /\ _memd_ignore = 0
    /\ heap = [a \in Addr |-> Unused]
    /\ reports = {}
    /\ last = NoCall
    /\ nops = 0
    /\ calls = [t \in Thread |-> Idle]

\* A wrapper's outcome r becomes the next state.  A report buffer that realloc
\* has taken over, or whose block is gone, is no longer the caller's report.
Returned(op, ptr, size, r) ==
    /\ MEMD_Data' = r.data
    /\ heap' = r.heap
    /\ reports' = {a \in reports : /\ Live(r.heap, a)
                                   /\ ~(op = "realloc" /\ a = ptr /\ r.ret # NULL)}
    /\ last' = [NoCall EXCEPT !.op = op, !.ptr = ptr, !.size = size,
                              !.line = LINE(op), !.ret = r.ret, !.freed = r.freed]
    /\ nops' = nops + 1
    /\ UNCHANGED <<_memd_ignore, calls>>

(***************************************************************************)
(* The call sites: the macros that redirect malloc, free, calloc and       *)
(* realloc to the wrappers with __LINE__ and __FILE__.                     *)
(***************************************************************************)
malloc ==
    /\ nops < MaxOps
    /\ \E size \in 1..MaxSize :
           \E ptr \in real_malloc(heap, size) :
               Returned("malloc", NULL, size,
                        _memd_malloc(MEMD_Data, heap, _memd_ignore,
                                     size, LINE("malloc"), FILE, ptr))

calloc ==
    /\ nops < MaxOps
    /\ \E num \in 1..MaxSize, size \in {MaxSize} :
           \E ptr \in real_calloc(heap, num, size) :
               Returned("calloc", NULL, (num * size) % SizeMod,
                        _memd_calloc(MEMD_Data, heap, _memd_ignore,
                                     num, size, LINE("calloc"), FILE, ptr))

free ==
    /\ nops < MaxOps
    /\ \E ptr \in Pointers(heap) :
           Returned("free", ptr, 0,
                    _memd_free(MEMD_Data, heap, _memd_ignore,
                               ptr, LINE("free"), FILE))

realloc ==
    /\ nops < MaxOps
    /\ \E size \in Sizes :
       \E ptr \in (IF size = 0 THEN Pointers(heap) ELSE Handles(heap)) :
           \E newPtr \in (IF ptr = NULL THEN real_malloc(heap, size)
                          ELSE IF size = 0 THEN {NULL}
                          ELSE real_realloc(heap, ptr, size)) :
               Returned("realloc", ptr, size,
                        _memd_realloc(MEMD_Data, heap, _memd_ignore,
                                      ptr, size, LINE("realloc"), FILE, newPtr))

memd_pause ==
    /\ nops < MaxOps
    /\ _memd_ignore' = 1
    /\ last' = [NoCall EXCEPT !.op = "memd_pause"]
    /\ nops' = nops + 1
    /\ UNCHANGED <<MEMD_Data, heap, reports, calls>>

memd_resume ==
    /\ nops < MaxOps
    /\ _memd_ignore' = 0
    /\ last' = [NoCall EXCEPT !.op = "memd_resume"]
    /\ nops' = nops + 1
    /\ UNCHANGED <<MEMD_Data, heap, reports, calls>>

(***************************************************************************)
(* memd_report is compiled before the macros are defined, so its malloc,   *)
(* realloc and free are the C library's.  It returns NULL when the first   *)
(* malloc or a later realloc fails (the partial buffer is then freed), and *)
(* otherwise a buffer holding the text, at any address the heap can give.  *)
(* last.again tells that the call before this one was a memd_report that   *)
(* returned a report.                                                      *)
(***************************************************************************)
\* memd_report that resets the Warning Log once the text is built.
memd_report_clears ==
    /\ nops < MaxOps
    /\ \E report \in real_malloc(heap, buffer_size) :
           /\ heap' = allocated(heap, report, buffer_size)
           /\ reports' = IF report = NULL THEN reports ELSE reports \cup {report}
           /\ last' = [NoCall EXCEPT
                           !.op = "memd_report", !.ret = report,
                           !.text = IF report = NULL THEN <<>>
                                    ELSE report_text(MEMD_Data),
                           !.again = last.op = "memd_report" /\ last.ret # NULL]
           /\ MEMD_Data' = IF report = NULL THEN MEMD_Data
                           ELSE [MEMD_Data EXCEPT !.warning_count = 0]
    /\ nops' = nops + 1
    /\ UNCHANGED <<_memd_ignore, calls>>

memd_report ==
    /\ nops < MaxOps
    /\ \E report \in real_malloc(heap, buffer_size) :
           /\ heap' = allocated(heap, report, buffer_size)
           /\ reports' = IF report = NULL THEN reports ELSE reports \cup {report}
           /\ last' = [NoCall EXCEPT
                           !.op = "memd_report", !.ret = report,
                           !.text = IF report = NULL THEN <<>>
                                    ELSE report_text(MEMD_Data),
                           !.again = last.op = "memd_report" /\ last.ret # NULL]
    /\ nops' = nops + 1
    /\ UNCHANGED <<MEMD_Data, _memd_ignore, calls>>

\* memd_report_free that releases the report through the tracking free.
memd_report_free_tracked ==
    /\ nops < MaxOps
    /\ \E ptr \in reports :
           LET r == _memd_free(MEMD_Data, heap, _memd_ignore, ptr, 0, FILE)
           IN  /\ MEMD_Data' = r.data
               /\ heap' = r.heap
               /\ reports' = reports \ {ptr}
               /\ last' = [NoCall EXCEPT !.op = "memd_report_free", !.ptr = ptr,
                                         !.freed = r.freed]
    /\ nops' = nops + 1
    /\ UNCHANGED <<_memd_ignore, calls>>

\* memd_report_free, called on a report the caller got from memd_report.
memd_report_free ==
    /\ nops < MaxOps
    /\ \E ptr \in reports :
           /\ heap' = real_free(heap, ptr)
           /\ reports' = reports \ {ptr}
           /\ last' = [NoCall EXCEPT !.op = "memd_report_free", !.ptr = ptr,
                                     !.freed = ptr]
    /\ nops' = nops + 1
    /\ UNCHANGED <<MEMD_Data, _memd_ignore, calls>>

Next ==
    \/ malloc
    \/ calloc
    \/ free
    \/ realloc
    \/ memd_pause
    \/ memd_resume
    \/ memd_report
    \/ memd_report_free

Spec == Init /\ [][Next]_vars

(***************************************************************************)
(* Programs that never pause tracking and ask for no report.               *)
(***************************************************************************)
NextTracked ==
    \/ malloc
    \/ calloc
    \/ free
    \/ realloc

SpecTracked == Init /\ [][NextTracked]_vars

(***************************************************************************)
(* Programs that only allocate and release, and release only blocks that   *)
(* are live: no block is released twice.                                   *)
(***************************************************************************)
free_live ==
    /\ nops < MaxOps
    /\ \E ptr \in {a \in Addr : Live(heap, a)} :
           Returned("free", ptr, 0,
                    _memd_free(MEMD_Data, heap, _memd_ignore,
                               ptr, LINE("free"), FILE))

NextAllocFree ==
    \/ malloc
    \/ free_live

SpecAllocFree == Init /\ [][NextAllocFree]_vars

(***************************************************************************)
(* What the properties below read.                                         *)
(***************************************************************************)
Slots == 1..MEMD_MAX_ALLOCATIONS

Tracked(d, a) == \E i \in Slots : d.mem[i].address = a

TableFull(d) == \A i \in Slots : d.mem[i].address # 0

RECURSIVE RecordBytes(_, _)
RecordBytes(d, i) ==
    IF i > MEMD_MAX_ALLOCATIONS THEN 0
    ELSE (IF d.mem[i].address # 0 THEN d.mem[i].size ELSE 0) + RecordBytes(d, i + 1)

\* total_allocated_size - total_free_size, as size_t arithmetic gives it.
Balance(d) == (d.total_allocated_size - d.total_free_size) % SizeMod

\* The Warning Log of d is the log of c with one warning appended, or the
\* log of c itself when that one is full.
Warned(c, d, msg, line) ==
    IF c.warning_count < MEMD_MAX_WARNINGS
    THEN /\ d.warning_count = c.warning_count + 1
         /\ d.warnings = [c.warnings EXCEPT ![c.warning_count + 1] =
                              [message |-> msg, line |-> line, file |-> FILE]]
    ELSE d.warning_count = c.warning_count /\ d.warnings = c.warnings

SameLog(c, d) == d.warning_count = c.warning_count /\ d.warnings = c.warnings

SameTable(c, d) ==
    /\ d.mem = c.mem
    /\ d.total_allocated_size = c.total_allocated_size
    /\ d.total_free_size = c.total_free_size

(***************************************************************************)
(* C1, as stated: after any sequence of malloc and free calls in which no  *)
(* block is released twice, total_allocated - total_freed is the sum of    *)
(* the sizes of the blocks that were handed out and never released.        *)
(* Fails: a block handed out while every slot is live is not counted.      *)
(***************************************************************************)
C1_BalanceIsUnreleasedBytes == Balance(MEMD_Data) = HeapUsed(heap, 1) % SizeMod

(***************************************************************************)
(* C1, amended: after any such sequence total_allocated - total_freed (in  *)
(* size_t arithmetic) is the sum of the sizes of the unreleased blocks     *)
(* that hold a record: every record with a nonzero address is a live block *)
(* of that size, no two records share an address, and the balance is the   *)
(* sum of the records' sizes.  A block handed out while the table was full *)
(* has no record and is not counted.                                       *)
(***************************************************************************)
C1_BalanceIsTrackedBytes ==
    /\ Balance(MEMD_Data) = RecordBytes(MEMD_Data, 1) % SizeMod
    /\ \A i \in Slots :
           MEMD_Data.mem[i].address # 0 =>
               /\ Live(heap, MEMD_Data.mem[i].address)
               /\ heap[MEMD_Data.mem[i].address] = MEMD_Data.mem[i].size
               /\ \A j \in Slots \ {i} :
                      MEMD_Data.mem[j].address # MEMD_Data.mem[i].address

\* A block was released, a tracked block is live, and so is a block that was
\* handed out over capacity.
C1_Witness ==
    /\ MEMD_Data.total_free_size > 0
    /\ \E i \in Slots : MEMD_Data.mem[i].address # 0
    /\ \E a \in Addr : Live(heap, a) /\ ~Tracked(MEMD_Data, a)
    /\ \E i \in 1..MEMD_MAX_WARNINGS :
           MEMD_Data.warnings[i].message = "Max allocations reached"

(***************************************************************************)
(* C2, as stated: an unsuppressed free of an address that holds no record  *)
(* records exactly one "Double free detected" warning and leaves the       *)
(* totals and every record unchanged.  Fails for the address NULL (another *)
(* warning) and when the Warning Log is full (no warning).                 *)
(***************************************************************************)
C2_UntrackedReleaseWarnsOnce ==
    [][(/\ last'.op = "free"
        /\ _memd_ignore = 0
        /\ ~(last'.ptr # NULL /\ Tracked(MEMD_Data, last'.ptr)))
       => /\ MEMD_Data'.warning_count = MEMD_Data.warning_count + 1
          /\ MEMD_Data'.warnings[MEMD_Data'.warning_count].message =
                 "Double free detected"
          /\ SameTable(MEMD_Data, MEMD_Data')]_vars

(***************************************************************************)
(* C2, amended: an unsuppressed free of a nonzero address that holds no    *)
(* record appends exactly one "Double free detected" warning with the      *)
(* call's site when the Warning Log is below its capacity and leaves the   *)
(* log unchanged when it is full; either way the totals and every record   *)
(* are unchanged and the C library's free is not called.                   *)
(***************************************************************************)
C2_UntrackedRelease ==
    [][(/\ last'.op = "free"
        /\ _memd_ignore = 0
        /\ last'.ptr # NULL
        /\ ~Tracked(MEMD_Data, last'.ptr))
       => /\ Warned(MEMD_Data, MEMD_Data', "Double free detected", LINE("free"))
          /\ SameTable(MEMD_Data, MEMD_Data')
          /\ last'.freed = NULL
          /\ heap' = heap]_vars

\* A block was released and is released again: the warning is the latest.
C2_Witness ==
    /\ last.op = "free"
    /\ _memd_ignore = 0
    /\ last.ptr # NULL
    /\ heap[last.ptr] = NoBlock
    /\ ~Tracked(MEMD_Data, last.ptr)
    /\ MEMD_Data.total_free_size > 0
    /\ MEMD_Data.warning_count = 1
    /\ MEMD_Data.warnings[1].message = "Double free detected"

(***************************************************************************)
(* C3: a malloc, calloc, realloc or free made while tracking is paused     *)
(* leaves MEMD_Data (table, totals, Warning Log) as it was, and the C      *)
(* library's operation is still performed: the block is allocated,         *)
(* resized or, for free and for realloc to size 0, released.               *)
(***************************************************************************)
C3_PausedOperationsReachTheHeap ==
    [][(_memd_ignore = 1 /\ last'.op \in {"malloc", "calloc", "realloc", "free"})
       => /\ MEMD_Data' = MEMD_Data
          /\ (/\ last'.ptr # NULL
              /\ Live(heap, last'.ptr)
              /\ last'.op = "free" \/ (last'.op = "realloc" /\ last'.size = 0))
             => /\ last'.freed = last'.ptr
                /\ ~Live(heap', last'.ptr)]_vars

(***************************************************************************)
(* C4: an unsuppressed free calls the C library's free only when _erase    *)
(* returned 0, that is when the address held a record; and in programs     *)
(* that never pause, whenever the C library's free is called the address   *)
(* holds a live block, so no block is released twice.                      *)
(***************************************************************************)
C4_ReleasedAtMostOnce ==
    [][last'.freed # NULL
       => /\ last'.freed = last'.ptr
          /\ _erase(MEMD_Data, last'.ptr, last'.line, FILE).ret = 0
          /\ Tracked(MEMD_Data, last'.ptr)
          /\ Live(heap, last'.freed)]_vars

\* A second free of a block that was released: free is not called again.
C4_Witness ==
    /\ last.op = "free"
    /\ last.ptr # NULL
    /\ last.freed = NULL
    /\ heap[last.ptr] = NoBlock
    /\ MEMD_Data.total_free_size > 0
    /\ \E i \in 1..MEMD_MAX_WARNINGS :
           MEMD_Data.warnings[i].message = "Double free detected"

(***************************************************************************)
(* C5: in every reachable state the table holds at most one record for     *)
(* each nonzero address.                                                   *)
(***************************************************************************)
C5_OneRecordPerAddress ==
    \A i \in Slots, j \in Slots :
        (i # j /\ MEMD_Data.mem[i].address # 0)
            => MEMD_Data.mem[i].address # MEMD_Data.mem[j].address

\* The calls that allocate without a handle: malloc, calloc, realloc(NULL, n).
Allocating(call) ==
    \/ call.op \in {"malloc", "calloc"}
    \/ call.op = "realloc" /\ call.ptr = NULL

(***************************************************************************)
(* C6, as stated: when every slot holds a live record, an unsuppressed     *)
(* allocation still returns the address the heap gave, records a "Max      *)
(* allocations reached" warning and leaves the table and total_allocated   *)
(* unchanged.  Fails when the Warning Log is full: no warning is recorded. *)
(***************************************************************************)
C6_OverCapacityAlwaysWarns ==
    [][(/\ Allocating(last')
        /\ _memd_ignore = 0
        /\ last'.ret # NULL
        /\ TableFull(MEMD_Data))
       => /\ Live(heap', last'.ret)
          /\ SameTable(MEMD_Data, MEMD_Data')
          /\ MEMD_Data'.warning_count = MEMD_Data.warning_count + 1
          /\ MEMD_Data'.warnings[MEMD_Data'.warning_count].message =
                 "Max allocations reached"]_vars

(***************************************************************************)
(* C6, amended: when every slot holds a live record, an unsuppressed       *)
(* allocation still returns the address the heap gave, appends a "Max      *)
(* allocations reached" warning unless the Warning Log is full (then the   *)
(* log is unchanged), and leaves the table and both totals unchanged.  The *)
(* allocation gets no record later either: a slot only ever changes by     *)
(* being erased (its address zeroed) or by taking the record of the very   *)
(* call that is returning that address, with that call's size and site,    *)
(* so no later report lists the over-capacity allocation.                  *)
(***************************************************************************)
C6_OverCapacity ==
    /\ [][(/\ Allocating(last')
            /\ _memd_ignore = 0
            /\ last'.ret # NULL
            /\ TableFull(MEMD_Data))
           => /\ Live(heap', last'.ret)
              /\ heap'[last'.ret] = last'.size
              /\ SameTable(MEMD_Data, MEMD_Data')
              /\ Warned(MEMD_Data, MEMD_Data', "Max allocations reached",
                        last'.line)]_vars
    /\ [][\A i \in Slots :
              MEMD_Data'.mem[i] # MEMD_Data.mem[i] =>
                  \/ MEMD_Data'.mem[i] = [MEMD_Data.mem[i] EXCEPT !.address = 0]
                  \/ /\ last'.op \in {"malloc", "calloc", "realloc"}
                     /\ last'.ret # NULL
                     /\ _memd_ignore = 0
                     /\ MEMD_Data'.mem[i] =
                            [address |-> last'.ret, size |-> last'.size,
                             line |-> last'.line, file |-> FILE]
                     /\ \/ MEMD_Data.mem[i].address = 0
                        \/ /\ last'.op = "realloc"
                           /\ MEMD_Data.mem[i].address = last'.ptr]_vars

\* The table filled up, an allocation over capacity was warned of and never
\* released, a slot came free, and a report has just been generated.
C6_Witness ==
    /\ last.op = "memd_report"
    /\ last.ret # NULL
    /\ ~TableFull(MEMD_Data)
    /\ MEMD_Data.warning_count = 1
    /\ MEMD_Data.warnings[1].message = "Max allocations reached"
    /\ \E a \in Addr \ reports :
           /\ Live(heap, a)
           /\ ~Tracked(MEMD_Data, a)
           /\ \A k \in 1..Len(last.text) :
                  last.text[k].kind = "leak" => last.text[k].line # LINE("malloc")

(***************************************************************************)
(* C7: whenever the heap returns NULL to an unsuppressed malloc or calloc, *)
(* a "Memory allocation failed" warning is recorded (the Warning Log       *)
(* permitting) and no record is inserted: the table and the totals are     *)
(* unchanged.                                                              *)
(***************************************************************************)
C7_FailedAllocationWarned ==
    [][(/\ last'.op \in {"malloc", "calloc"}
        /\ _memd_ignore = 0
        /\ last'.ret = NULL)
       => /\ Warned(MEMD_Data, MEMD_Data', "Memory allocation failed", last'.line)
          /\ SameTable(MEMD_Data, MEMD_Data')]_vars

(***************************************************************************)
(* C8: the Warning Log is append-only and bounded: warning_count never     *)
(* exceeds MEMD_MAX_WARNINGS; no call lowers warning_count or changes a    *)
(* warning already recorded; a call adds at most the warnings it raises;   *)
(* and once warning_count is MEMD_MAX_WARNINGS no call changes the log.    *)
(***************************************************************************)
C8_WarningLogAppendOnly ==
    /\ [](MEMD_Data.warning_count \in 0..MEMD_MAX_WARNINGS)
    /\ [][/\ MEMD_Data'.warning_count >= MEMD_Data.warning_count
          /\ \A i \in 1..MEMD_Data.warning_count :
                 MEMD_Data'.warnings[i] = MEMD_Data.warnings[i]
          /\ \A i \in (MEMD_Data'.warning_count + 1)..MEMD_MAX_WARNINGS :
                 MEMD_Data'.warnings[i] = MEMD_Warning
          /\ MEMD_Data.warning_count = MEMD_MAX_WARNINGS
                 => SameLog(MEMD_Data, MEMD_Data')]_vars

\* The log is full of double-free warnings and the latest call, a free of
\* NULL, raised a warning that was dropped.
C8_Witness ==
    /\ MEMD_Data.warning_count = MEMD_MAX_WARNINGS
    /\ \A i \in 1..MEMD_MAX_WARNINGS :
           MEMD_Data.warnings[i].message = "Double free detected"
    /\ last.op = "free"
    /\ last.ptr = NULL
    /\ _memd_ignore = 0

(***************************************************************************)
(* C9: a memd_report that directly follows a memd_report returns the same  *)
(* text (when both return a report), and no memd_report changes MEMD_Data  *)
(* (table, totals, Warning Log) or the pause flag.                         *)
(***************************************************************************)
C9_ReportRepeatable ==
    [][last'.op = "memd_report"
       => /\ MEMD_Data' = MEMD_Data
          /\ _memd_ignore' = _memd_ignore
          /\ (last'.again /\ last'.ret # NULL) => last'.text = last.text]_vars

\* The second of two reports in a row, listing a leak and a warning.
C9_Witness ==
    /\ last.op = "memd_report"
    /\ last.again
    /\ last.ret # NULL
    /\ \E k \in 1..Len(last.text) : last.text[k].kind = "leak"
    /\ \E k \in 1..Len(last.text) : last.text[k].kind = "warning"

(***************************************************************************)
(* C10: no call ever lowers total_allocated_size or total_free_size.       *)
(***************************************************************************)
C10_TotalsNeverDecrease ==
    [][/\ MEMD_Data'.total_allocated_size >= MEMD_Data.total_allocated_size
       /\ MEMD_Data'.total_free_size >= MEMD_Data.total_free_size]_vars

\* The lines of a report text that list a leak, and those that list a warning.
IsLeakLine(f) == f.kind = "leak"

IsWarningLine(f) == f.kind = "warning"

HasSection(text, kind) == \E k \in 1..Len(text) : text[k].kind = kind

Position(text, kind) == CHOOSE k \in 1..Len(text) : text[k].kind = kind

IsRecord(m) == m.address # 0

(***************************************************************************)
(* C11: a report holds the "Detailed Report" header exactly when           *)
(* total_allocated_size - total_free_size is nonzero, and then one leak    *)
(* line per record with a nonzero address, in slot order, each with that   *)
(* record's file, line and size (and no leak line otherwise); it holds the *)
(* "Warnings" header exactly when warning_count > 0, and one line per      *)
(* recorded warning, in recording order; the leak lines follow their       *)
(* header and come before the warnings' header, which the warning lines    *)
(* follow.                                                                 *)
(***************************************************************************)
C11_ReportSections ==
    (last.op = "memd_report" /\ last.ret # NULL) =>
        LET text == last.text
            leaks == SelectSeq(text, IsLeakLine)
            warned == SelectSeq(text, IsWarningLine)
            records == SelectSeq(MEMD_Data.mem, IsRecord)
        IN  /\ HasSection(text, "detailed") <=> Balance(MEMD_Data) # 0
            /\ Len(SelectSeq(text, LAMBDA f : f.kind = "detailed")) <= 1
            /\ Len(SelectSeq(text, LAMBDA f : f.kind = "warnings")) <= 1
            /\ IF HasSection(text, "detailed")
               THEN /\ Len(leaks) = Len(records)
                    /\ \A k \in 1..Len(leaks) :
                           /\ leaks[k].file = records[k].file
                           /\ leaks[k].line = records[k].line
                           /\ leaks[k].n = records[k].size
                    /\ \A k \in 1..Len(text) :
                           text[k].kind = "leak" => k > Position(text, "detailed")
               ELSE Len(leaks) = 0
            /\ HasSection(text, "warnings") <=> MEMD_Data.warning_count > 0
            /\ Len(warned) = MEMD_Data.warning_count
            /\ \A k \in 1..Len(warned) :
                   /\ warned[k].file = MEMD_Data.warnings[k].file
                   /\ warned[k].line = MEMD_Data.warnings[k].line
                   /\ warned[k].msg = MEMD_Data.warnings[k].message
            /\ \A k \in 1..Len(text) :
                   /\ text[k].kind = "warning" => k > Position(text, "warnings")
                   /\ (text[k].kind \in {"leak", "detailed"}
                       /\ HasSection(text, "warnings"))
                          => k < Position(text, "warnings")

\* A report of a table whose first slot was erased and whose second holds a
\* record, with a warning in the log: eleven lines.
C11_Witness ==
    /\ last.op = "memd_report"
    /\ last.ret # NULL
    /\ MEMD_Data.mem[1].address = 0
    /\ MEMD_Data.mem[2].address # 0
    /\ MEMD_Data.warning_count = 1
    /\ Len(last.text) = 11

(***************************************************************************)
(* C13: when realloc is called with a non-null ptr and a nonzero size and  *)
(* the C library's realloc returns NULL, nothing is mutated: MEMD_Data     *)
(* (table, totals, Warning Log) is unchanged, every record of ptr is as it *)
(* was (address, size, line, file), and the heap still holds the block.    *)
(***************************************************************************)
C13_FailedResizeChangesNothing ==
    [][(/\ last'.op = "realloc"
        /\ last'.ptr # NULL
        /\ last'.size # 0
        /\ last'.ret = NULL)
       => /\ SameTable(MEMD_Data, MEMD_Data')
          /\ SameLog(MEMD_Data, MEMD_Data')
          /\ \A i \in Slots :
                 MEMD_Data.mem[i].address = last'.ptr
                     => MEMD_Data'.mem[i] = MEMD_Data.mem[i]
          /\ heap' = heap
          /\ last'.freed = NULL]_vars

\* An unsuppressed realloc of a tracked live block to another size has failed.
C13_Witness ==
    /\ last.op = "realloc"
    /\ last.ptr # NULL
    /\ last.size # 0
    /\ last.ret = NULL
    /\ _memd_ignore = 0
    /\ Live(heap, last.ptr)
    /\ \E i \in Slots : /\ MEMD_Data.mem[i].address = last.ptr
                        /\ MEMD_Data.mem[i].size # last.size
                        /\ MEMD_Data.mem[i].line = LINE("malloc")

(***************************************************************************)
(* C15: realloc(NULL, size) changes MEMD_Data and the heap as malloc(size) *)
(* from the same line does and returns what it returns, a block of size    *)
(* bytes or NULL; realloc(ptr, 0) with a non-null ptr changes MEMD_Data    *)
(* and the heap as free(ptr) from the same line does, hands the same       *)
(* address to the C library's free, and returns NULL.  Both hold whether   *)
(* tracking is paused or not.                                              *)
(***************************************************************************)
C15_ResizeDegenerateCases ==
    [][last'.op = "realloc" =>
          /\ last'.ptr = NULL =>
                 LET m == _memd_malloc(MEMD_Data, heap, _memd_ignore, last'.size,
                                       last'.line, FILE, last'.ret)
                 IN  /\ last'.ret \in real_malloc(heap, last'.size)
                     /\ MEMD_Data' = m.data
                     /\ heap' = m.heap
                     /\ last'.freed = m.freed
          /\ (last'.ptr # NULL /\ last'.size = 0) =>
                 LET f == _memd_free(MEMD_Data, heap, _memd_ignore, last'.ptr,
                                     last'.line, FILE)
                 IN  /\ last'.ret = NULL
                     /\ MEMD_Data' = f.data
                     /\ heap' = f.heap
                     /\ last'.freed = f.freed]_vars

\* realloc(ptr, 0) has released a block that realloc(NULL, size) had
\* allocated: the erased slot still shows the size and the line of realloc.
C15_Witness ==
    /\ last.op = "realloc"
    /\ last.ptr # NULL
    /\ last.size = 0
    /\ last.ret = NULL
    /\ last.freed = last.ptr
    /\ heap[last.ptr] = NoBlock
    /\ MEMD_Data.total_free_size > 0
    /\ MEMD_Data.total_free_size = MEMD_Data.total_allocated_size
    /\ MEMD_Data.mem[1] = [address |-> 0, size |-> MEMD_Data.total_free_size,
                           line |-> LINE("realloc"), file |-> FILE]

(***************************************************************************)
(* C16, as stated: an unsuppressed free(NULL) records a "Tried to free a   *)
(* null ptr" warning, does not call the C library's free, and leaves the   *)
(* table and both totals unchanged.  Fails when the Warning Log is full:   *)
(* no warning is recorded.                                                 *)
(***************************************************************************)
C16_NullReleaseAlwaysWarns ==
    [][(last'.op = "free" /\ last'.ptr = NULL /\ _memd_ignore = 0)
       => /\ MEMD_Data'.warning_count = MEMD_Data.warning_count + 1
          /\ MEMD_Data'.warnings[MEMD_Data'.warning_count].message =
                 "Tried to free a null ptr"
          /\ SameTable(MEMD_Data, MEMD_Data')
          /\ last'.freed = NULL
          /\ heap' = heap]_vars

(***************************************************************************)
(* C16, amended: an unsuppressed free(NULL) appends one "Tried to free a   *)
(* null ptr" warning (and no "Double free detected" warning) with the      *)
(* call's site when the Warning Log is below its capacity and leaves the   *)
(* log unchanged when it is full; either way the C library's free is not   *)
(* called and the table and both totals are unchanged.                     *)
(***************************************************************************)
C16_NullRelease ==
    [][(last'.op = "free" /\ last'.ptr = NULL /\ _memd_ignore = 0)
       => /\ Warned(MEMD_Data, MEMD_Data', "Tried to free a null ptr", LINE("free"))
          /\ SameTable(MEMD_Data, MEMD_Data')
          /\ last'.freed = NULL
          /\ heap' = heap]_vars

\* free(NULL) with a record in the table and a warning already in the log: the
\* null-pointer warning is the second.
C16_Witness ==
    /\ last.op = "free"
    /\ last.ptr = NULL
    /\ _memd_ignore = 0
    /\ \E i \in Slots : MEMD_Data.mem[i].address # 0
    /\ MEMD_Data.warning_count = 2
    /\ MEMD_Data.warnings[1].message = "Max allocations reached"
    /\ MEMD_Data.warnings[2].message = "Tried to free a null ptr"

(***************************************************************************)
(* C18: whenever some slot's address is zero, be it a slot never used or   *)
(* one that was erased, an unsuppressed allocation that obtains a non-null *)
(* address is recorded in such a slot with its size and call site, every   *)
(* other slot is left as it was, and the Warning Log is unchanged (no "Max *)
(* allocations reached").  So the capacity limits the records held at one  *)
(* time, not the allocations recorded over the program's run.              *)
(***************************************************************************)
C18_ErasedSlotReused ==
    [][(/\ Allocating(last')
        /\ _memd_ignore = 0
        /\ last'.ret # NULL
        /\ ~TableFull(MEMD_Data))
       => /\ SameLog(MEMD_Data, MEMD_Data')
          /\ \E i \in Slots :
                 /\ MEMD_Data.mem[i].address = 0
                 /\ MEMD_Data'.mem[i] =
                        [address |-> last'.ret, size |-> last'.size,
                         line |-> last'.line, file |-> FILE]
                 /\ \A j \in Slots \ {i} :
                        MEMD_Data'.mem[j] = MEMD_Data.mem[j]]_vars

\* More allocations were recorded than the table has slots, with no warning:
\* the table is full, the latest malloc was recorded, and before it a record
\* was erased.
C18_Witness ==
    /\ last.op = "malloc"
    /\ last.ret # NULL
    /\ _memd_ignore = 0
    /\ Tracked(MEMD_Data, last.ret)
    /\ TableFull(MEMD_Data)
    /\ MEMD_Data.total_free_size > 0
    /\ MEMD_Data.warning_count = 0
    /\ nops = MEMD_MAX_ALLOCATIONS + 2

(***************************************************************************)
(* C19: memd_report and memd_report_free leave MEMD_Data (table, both      *)
(* totals, Warning Log) and the caller's pause flag exactly as they were:  *)
(* the buffer comes from the C library's malloc and goes back through the  *)
(* C library's free, so it gets no record and raises no warning, and a     *)
(* caller that had paused tracking is still paused.  The heap holds the    *)
(* buffer after memd_report and no longer after memd_report_free.          *)
(***************************************************************************)
C19_ReportLeavesNoTrace ==
    [][last'.op \in {"memd_report", "memd_report_free"} =>
          /\ MEMD_Data' = MEMD_Data
          /\ _memd_ignore' = _memd_ignore
          /\ (last'.op = "memd_report" /\ last'.ret # NULL) =>
                 /\ ~Live(heap, last'.ret)
                 /\ heap' = [heap EXCEPT ![last'.ret] = buffer_size]
          /\ last'.op = "memd_report_free" =>
                 /\ last'.freed = last'.ptr
                 /\ heap' = [heap EXCEPT ![last'.ptr] = NoBlock]]_vars

\* A paused caller, holding a tracked block, has generated a report and has
\* released it: it is still paused and the table holds that one record.
C19_Witness ==
    /\ last.op = "memd_report_free"
    /\ _memd_ignore = 1
    /\ heap[last.ptr] = NoBlock
    /\ reports = {}
    /\ ~Tracked(MEMD_Data, last.ptr)
    /\ MEMD_Data.mem[1].address # 0
    /\ MEMD_Data.warning_count = 0
    /\ Balance(MEMD_Data) = MEMD_Data.mem[1].size

\* The number of slots whose address is not zero.
LiveRecords(d) == Cardinality({i \in Slots : d.mem[i].address # 0})

(***************************************************************************)
(* C14: after an unsuppressed realloc of a tracked non-null ptr to a       *)
(* nonzero size that returned a non-null address, no record holds the old  *)
(* address (unless it is the new one), exactly one record holds the new    *)
(* address and it has the new size and the line and file of the realloc    *)
(* call; total_free_size is greater by the old record's size and           *)
(* total_allocated_size by the new size; as many slots hold a record as    *)
(* before; and the Warning Log is unchanged.                               *)
(***************************************************************************)
C14_ResizeReplacesRecord ==
    [][(/\ last'.op = "realloc"
        /\ last'.ptr # NULL
        /\ last'.size # 0
        /\ last'.ret # NULL
        /\ _memd_ignore = 0
        /\ Tracked(MEMD_Data, last'.ptr))
       => LET old == MEMD_Data.mem[_find_by_address(MEMD_Data, last'.ptr)]
          IN  /\ last'.ret # last'.ptr => ~Tracked(MEMD_Data', last'.ptr)
              /\ Cardinality({i \in Slots :
                                 MEMD_Data'.mem[i].address = last'.ret}) = 1
              /\ \E i \in Slots :
                     MEMD_Data'.mem[i] =
                         [address |-> last'.ret, size |-> last'.size,
                          line |-> last'.line, file |-> FILE]
              /\ MEMD_Data'.total_free_size =
                     MEMD_Data.total_free_size + old.size
              /\ MEMD_Data'.total_allocated_size =
                     MEMD_Data.total_allocated_size + last'.size
              /\ LiveRecords(MEMD_Data') = LiveRecords(MEMD_Data)
              /\ SameLog(MEMD_Data, MEMD_Data')]_vars

(***************************************************************************)
(* C17: in every reachable state of a single-threaded program the leaked   *)
(* total that a report prints, total_allocated_size - total_free_size in   *)
(* size_t arithmetic, is the sum of the sizes of the records whose address *)
(* is nonzero, whatever calls were made.                                   *)
(***************************************************************************)
C17_BalanceIsRecordBytes == Balance(MEMD_Data) = RecordBytes(MEMD_Data, 1)

(***************************************************************************)
(* Programs of two threads.  _memd_ignore is declared thread-local, so     *)
(* every thread has its own: in these programs _memd_ignore[t] is thread   *)
(* t's.  MEMD_Data is one global that the wrappers read and write without  *)
(* any lock, so a thread's call is a sequence of steps that the other      *)
(* thread's steps interleave with: the scan of _find_by_address, the write *)
(* of a record, and for each total the load with the addition and then the *)
(* store.  The C library's malloc, realloc and free are thread-safe and    *)
(* are one step each.  A thread passes to free and realloc only blocks it  *)
(* holds, so the program itself releases no block twice.                   *)
(*                                                                         *)
(* last tells which thread made the latest call and which call, and        *)
(* whether ever a thread entered _insert or _erase while the other thread  *)
(* was inside a call (raced).                                              *)
(***************************************************************************)
InitThreads ==
    /\ MEMD_Data = [mem |-> [i \in 1..MEMD_MAX_ALLOCATIONS |-> MEMD_Mem],
                    total_allocated_size |-> 0,
                    total_free_size |-> 0,
                    warnings |-> [i \in 1..MEMD_MAX_WARNINGS |-> MEMD_Warning],
                    warning_count |-> 0]
    /\ _memd_ignore = [t \in Thread |-> 0]
    /\ heap = [a \in Addr |-> Unused]
    /\ reports = {}
    /\ last = [thread |-> 0, op |-> "none", raced |-> FALSE]
    /\ nops = 0
    /\ calls = [t \in Thread |-> Idle]

\* Thread t has made the call op and is now at c.
Began(t, op, c) ==
    /\ calls' = [calls EXCEPT ![t] = c]
    /\ last' = [thread |-> t, op |-> op,
                raced |-> \/ last.raced
                          \/ /\ c.pc # "idle"
                             /\ \E u \in Thread \ {t} : calls[u].pc # "idle"]
    /\ nops' = nops + 1
    /\ UNCHANGED reports

\* Thread t has taken a step inside its call and is now at c.
Went(t, c) ==
    /\ calls' = [calls EXCEPT ![t] = c]
    /\ UNCHANGED <<_memd_ignore, reports, last, nops>>

\* The wrapper has returned.
Done(c) == [Idle EXCEPT !.owned = c.owned]

\* _memd_malloc up to its call of _insert.
thread_malloc(t) ==
    /\ nops < MaxCalls
    /\ calls[t].pc = "idle"
    /\ \E size \in 1..MaxSize :
           \E ptr \in real_malloc(heap, size) :
               /\ heap' = allocated(heap, ptr, size)
               /\ Began(t, "malloc",
                        IF _memd_ignore[t] # 1
                        THEN [calls[t] EXCEPT
                                  !.pc = "_insert", !.op = "malloc",
                                  !.size = size, !.ret = ptr,
                                  !.owned = IF ptr = NULL THEN @ ELSE @ \cup {ptr}]
                        ELSE [calls[t] EXCEPT
                                  !.owned = IF ptr = NULL THEN @ ELSE @ \cup {ptr}])
    /\ UNCHANGED <<MEMD_Data, _memd_ignore>>

\* _memd_free up to its call of _erase.
thread_free(t) ==
    /\ nops < MaxCalls
    /\ calls[t].pc = "idle"
    /\ \E ptr \in calls[t].owned :
           Began(t, "free",
                 IF _memd_ignore[t] # 1
                 THEN [calls[t] EXCEPT !.pc = "_erase", !.op = "free",
                                       !.ptr = ptr, !.owned = @ \ {ptr}]
                 ELSE [calls[t] EXCEPT !.owned = @ \ {ptr}])
    /\ UNCHANGED <<MEMD_Data, heap, _memd_ignore>>

\* _memd_realloc with a non-null ptr and a nonzero size, up to its call of
\* _erase.
thread_realloc(t) ==
    /\ nops < MaxCalls
    /\ calls[t].pc = "idle"
    /\ \E ptr \in calls[t].owned, size \in 1..MaxSize :
           \E newPtr \in real_realloc(heap, ptr, size) :
               /\ heap' = reallocated(heap, ptr, newPtr, size)
               /\ Began(t, "realloc",
                        IF newPtr # NULL /\ _memd_ignore[t] # 1
                        THEN [calls[t] EXCEPT
                                  !.pc = "_erase", !.op = "realloc",
                                  !.ptr = ptr, !.size = size, !.ret = newPtr,
                                  !.owned = (@ \ {ptr}) \cup {newPtr}]
                        ELSE [calls[t] EXCEPT
                                  !.owned = IF newPtr = NULL THEN @
                                            ELSE (@ \ {ptr}) \cup {newPtr}])
    /\ UNCHANGED <<MEMD_Data, _memd_ignore>>

\* memd_pause with a flag that all threads share.
thread_pause_shared(t) ==
    /\ nops < MaxCalls
    /\ calls[t].pc = "idle"
    /\ _memd_ignore' = [u \in Thread |-> 1]
    /\ Began(t, "memd_pause", calls[t])
    /\ UNCHANGED <<MEMD_Data, heap>>

thread_pause(t) ==
    /\ nops < MaxCalls
    /\ calls[t].pc = "idle"
    /\ _memd_ignore' = [_memd_ignore EXCEPT ![t] = 1]
    /\ Began(t, "memd_pause", calls[t])
    /\ UNCHANGED <<MEMD_Data, heap>>

thread_resume(t) ==
    /\ nops < MaxCalls
    /\ calls[t].pc = "idle"
    /\ _memd_ignore' = [_memd_ignore EXCEPT ![t] = 0]
    /\ Began(t, "memd_resume", calls[t])
    /\ UNCHANGED <<MEMD_Data, heap>>

\* _insert: the test for null and the search for an empty slot.
thread_insert(t) ==
    LET c == calls[t]
        mem == _find_by_address(MEMD_Data, 0)
    IN  /\ c.pc = "_insert"
        /\ IF c.ret = 0
           THEN /\ MEMD_Data' = WARN(MEMD_Data, "Memory allocation failed",
                                     LINE(c.op), FILE)
                /\ Went(t, Done(c))
           ELSE IF mem = NULL
           THEN /\ MEMD_Data' = WARN(MEMD_Data, "Max allocations reached",
                                     LINE(c.op), FILE)
                /\ Went(t, Done(c))
           ELSE /\ MEMD_Data' = MEMD_Data
                /\ Went(t, [c EXCEPT !.pc = "insert_record", !.mem = mem])
        /\ UNCHANGED heap

\* _insert: the allocation's info is saved in the slot found.
thread_insert_record(t) ==
    LET c == calls[t]
    IN  /\ c.pc = "insert_record"
        /\ MEMD_Data' = [MEMD_Data EXCEPT
                             !.mem[c.mem] = [address |-> c.ret, size |-> c.size,
                                             line |-> LINE(c.op), file |-> FILE]]
        /\ Went(t, [c EXCEPT !.pc = "insert_load"])
        /\ UNCHANGED heap

\* total_allocated_size += size with the total taken to be zero.
thread_insert_load_zero(t) ==
    LET c == calls[t]
    IN  /\ c.pc = "insert_load"
        /\ Went(t, [c EXCEPT !.pc = "insert_store", !.sum = c.size % SizeMod])
        /\ UNCHANGED <<MEMD_Data, heap>>

\* total_allocated_size += size: the total is loaded and size added to it.
thread_insert_load(t) ==
    LET c == calls[t]
    IN  /\ c.pc = "insert_load"
        /\ Went(t, [c EXCEPT !.pc = "insert_store",
                             !.sum = (MEMD_Data.total_allocated_size + c.size)
                                         % SizeMod])
        /\ UNCHANGED <<MEMD_Data, heap>>

\* total_allocated_size += size: the sum is stored; _insert and the wrapper
\* return.
thread_insert_store(t) ==
    LET c == calls[t]
    IN  /\ c.pc = "insert_store"
        /\ MEMD_Data' = [MEMD_Data EXCEPT !.total_allocated_size = c.sum]
        /\ Went(t, Done(c))
        /\ UNCHANGED heap

\* Where the wrapper goes on when _erase has returned ret: _memd_realloc calls
\* _insert whatever _erase returned, _memd_free calls free when it returned 0.
erased(c, ret) ==
    IF c.op = "realloc" THEN [c EXCEPT !.pc = "_insert"]
    ELSE IF ret = 0 THEN [c EXCEPT !.pc = "free"]
    ELSE Done(c)

\* _erase: the test for null and the search for the address's record.
thread_erase(t) ==
    LET c == calls[t]
        mem == _find_by_address(MEMD_Data, c.ptr)
    IN  /\ c.pc = "_erase"
        /\ IF c.ptr = 0
           THEN /\ MEMD_Data' = WARN(MEMD_Data, "Tried to free a null ptr",
                                     LINE(c.op), FILE)
                /\ Went(t, erased(c, -1))
           ELSE IF mem = NULL
           THEN /\ MEMD_Data' = WARN(MEMD_Data, "Double free detected",
                                     LINE(c.op), FILE)
                /\ Went(t, erased(c, -1))
           ELSE /\ MEMD_Data' = MEMD_Data
                /\ Went(t, [c EXCEPT !.pc = "erase_address", !.mem = mem])
        /\ UNCHANGED heap

\* _erase: the slot's address is set to null.
thread_erase_address(t) ==
    LET c == calls[t]
    IN  /\ c.pc = "erase_address"
        /\ MEMD_Data' = [MEMD_Data EXCEPT !.mem[c.mem].address = 0]
        /\ Went(t, [c EXCEPT !.pc = "erase_load"])
        /\ UNCHANGED heap

\* total_free_size += mem->size: the total and the slot's size are loaded and
\* added.
thread_erase_load(t) ==
    LET c == calls[t]
    IN  /\ c.pc = "erase_load"
        /\ Went(t, [c EXCEPT !.pc = "erase_store",
                             !.sum = (MEMD_Data.total_free_size
                                      + MEMD_Data.mem[c.mem].size) % SizeMod])
        /\ UNCHANGED <<MEMD_Data, heap>>

\* total_free_size += mem->size: the sum is stored; _erase returns 0.
thread_erase_store(t) ==
    LET c == calls[t]
    IN  /\ c.pc = "erase_store"
        /\ MEMD_Data' = [MEMD_Data EXCEPT !.total_free_size = c.sum]
        /\ Went(t, erased(c, 0))
        /\ UNCHANGED heap

\* _memd_free: _erase returned 0 and the C library's free is called.
thread_free_call(t) ==
    LET c == calls[t]
    IN  /\ c.pc = "free"
        /\ heap' = real_free(heap, c.ptr)
        /\ Went(t, Done(c))
        /\ UNCHANGED MEMD_Data

NextThreads ==
    \E t \in Thread :
        \/ thread_malloc(t)
        \/ thread_free(t)
        \/ thread_realloc(t)
        \/ thread_pause(t)
        \/ thread_resume(t)
        \/ thread_insert(t)
        \/ thread_insert_record(t)
        \/ thread_insert_load(t)
        \/ thread_insert_store(t)
        \/ thread_erase(t)
        \/ thread_erase_address(t)
        \/ thread_erase_load(t)
        \/ thread_erase_store(t)
        \/ thread_free_call(t)

SpecThreads == InitThreads /\ [][NextThreads]_vars

(***************************************************************************)
(* Programs of two threads that only allocate and release and never pause. *)
(***************************************************************************)
NextRace ==
    \E t \in Thread :
        \/ thread_malloc(t)
        \/ thread_free(t)
        \/ thread_insert(t)
        \/ thread_insert_record(t)
        \/ thread_insert_load(t)
        \/ thread_insert_store(t)
        \/ thread_erase(t)
        \/ thread_erase_address(t)
        \/ thread_erase_load(t)
        \/ thread_erase_store(t)
        \/ thread_free_call(t)

SpecRace == InitThreads /\ [][NextRace]_vars

(***************************************************************************)
(* C12: in a program of two threads, under every interleaving, a thread's  *)
(* flag changes only by a memd_pause or memd_resume that this thread       *)
(* itself calls; and whether a malloc, free or realloc of a thread is      *)
(* tracked (the wrapper goes on into _insert or _erase) is decided by that *)
(* thread's own flag: malloc and free are tracked exactly when it is not   *)
(* 1, realloc only when it is not 1 and, if the heap changed, whenever it  *)
(* is not 1.  So a pause or resume of one thread never changes whether a   *)
(* call of the other is tracked.                                           *)
(***************************************************************************)
C12_FlagIsPerThread ==
    /\ [][\A u \in Thread :
              _memd_ignore'[u] # _memd_ignore[u] =>
                  /\ nops' = nops + 1
                  /\ last'.thread = u
                  /\ last'.op \in {"memd_pause", "memd_resume"}]_vars
    /\ [][\A u \in Thread :
              (nops' = nops + 1 /\ last'.thread = u) =>
                  /\ last'.op \in {"malloc", "free"} =>
                         (calls'[u].pc # "idle" <=> _memd_ignore[u] # 1)
                  /\ last'.op = "realloc" =>
                         /\ calls'[u].pc # "idle" => _memd_ignore[u] # 1
                         /\ (_memd_ignore[u] # 1 /\ heap' # heap)
                                => calls'[u].pc # "idle"]_vars

\* Thread 1 has paused and holds a block that has no record; thread 2 has,
\* after that, called malloc and is inside _insert.
C12_Witness ==
    /\ _memd_ignore[1] = 1
    /\ _memd_ignore[2] = 0
    /\ \E a \in calls[1].owned : ~Tracked(MEMD_Data, a)
    /\ calls[1].pc = "idle"
    /\ last.thread = 2
    /\ last.op = "malloc"
    /\ calls[2].pc = "_insert"
    /\ calls[2].ret # NULL

\* No thread is inside a call.
Quiescent == \A t \in Thread : calls[t].pc = "idle"

\* The blocks the threads hold.
Held == UNION {calls[t].owned : t \in Thread}

\* What holds between the calls of a single-threaded program that only
\* allocates and releases, and releases no block twice: the difference of the
\* totals is the sum of the records' sizes; every record is a block the
\* program holds, with its size, and no two records share an address; a block
\* the program holds has a record unless the table was full when it was
\* allocated (of which the log tells, unless it is full).
Accounted ==
    /\ Balance(MEMD_Data) = RecordBytes(MEMD_Data, 1) % SizeMod
    /\ \A i \in Slots :
           MEMD_Data.mem[i].address # 0 =>
               /\ MEMD_Data.mem[i].address \in Held
               /\ heap[MEMD_Data.mem[i].address] = MEMD_Data.mem[i].size
               /\ \A j \in Slots \ {i} :
                      MEMD_Data.mem[j].address # MEMD_Data.mem[i].address
    /\ (\E a \in Held : ~Tracked(MEMD_Data, a)) =>
           \/ MEMD_Data.warning_count = MEMD_MAX_WARNINGS
           \/ \E k \in 1..MEMD_Data.warning_count :
                  MEMD_Data.warnings[k].message = "Max allocations reached"

(***************************************************************************)
(* C20: MEMD_Data is shared by the threads and nothing synchronizes them.  *)
(* As long as no thread has entered _insert or _erase while the other      *)
(* thread was inside a call, the single-threaded accounting holds whenever *)
(* no call is in progress; once calls have overlapped it need not (see the *)
(* witness): two inserts that find the same empty slot leave one record,   *)
(* and of two total_allocated_size += size that load the same value one is *)
(* overwritten.                                                            *)
(***************************************************************************)
C20_OnlyOverlappingCallsLoseUpdates ==
    (Quiescent /\ ~last.raced) => Accounted

\* Two mallocs of different threads have overlapped and both have returned a
\* block: the table holds one record though it is not full and nothing was
\* released, the other block has none, no warning was raised, and
\* total_allocated_size counts one block only.
C20_Witness ==
    /\ Quiescent
    /\ last.raced
    /\ MEMD_Data.warning_count = 0
    /\ MEMD_Data.total_free_size = 0
    /\ ~TableFull(MEMD_Data)
    /\ \E a \in calls[1].owned, b \in calls[2].owned :
           /\ Held = {a, b}
           /\ Live(heap, a) /\ Live(heap, b)
           /\ Tracked(MEMD_Data, a) # Tracked(MEMD_Data, b)
           /\ MEMD_Data.total_allocated_size \in {heap[a], heap[b]}
           /\ MEMD_Data.total_allocated_size < heap[a] + heap[b]
           /\ heap[a] + heap[b] < SizeMod

====
